---- MODULE Spec2Model ----
(***************************************************************************)
(* DBusTransport base object (dbus/dbus-transport.c,                        *)
(* dbus/dbus-transport-protected.h): reference counting, the reentrancy    *)
(* guard around every vtable dispatch, and the disconnect/authenticate     *)
(* state machine.                                                          *)
(*                                                                         *)
(* One transport instance is modelled.  Its owner (the Connection) and     *)
(* the subclass callbacks run on one thread; a callback may call back      *)
(* into the public API, so the pending calls form a stack.  A frame on     *)
(* the stack is a public function suspended inside its vtable callback.    *)
(* _dbus_assert is modelled as compiled in: a failed assertion aborts.     *)
(***************************************************************************)
EXTENDS Integers, Sequences, FiniteSets, TLC

\* ---------------------------------------------------------------- bounds
MaxCalls == 4         \* public API calls issued over one behaviour
MaxDepth == 3         \* frames on the call stack
MaxOwnerRefs == 2     \* references held by the owner at one time

\* ------------------------------------------------------------ value sets
NULL == "NULL"
Conns == {"c1", "c2"}
Watches == {"w_invalid", "w_read"}
Conditions == {{"READABLE"}, {"WRITABLE", "HANGUP"}}
QueueLens == {0, 1, 5}
IterFlags == {{}, {"BLOCK"}, {"DO_READING"}, {"DO_WRITING", "BLOCK"}}
Timeouts == {-1, 0}
AuthStates == {"WAITING_FOR_INPUT", "NEED_DISCONNECT", "AUTHENTICATED"}
GuardedOps == {"disconnect", "handle_watch", "connection_set",
               "messages_pending", "do_iteration"}
VtableOps == GuardedOps \cup {"finalize"}

VARIABLES
    phase,                  \* "raw" (allocated), "live" (init_base succeeded), "failed"
    refcount, vtable, connection, loader, auth,
    disconnected, authenticated, messages_need_sending,   \* struct DBusTransport
    stack,                  \* public functions suspended in a vtable callback
    aborted,                \* a _dbus_assert failed
    ownerRefs,              \* references on the transport held outside the guard
    connHeld,               \* per connection: dbus_connection_ref minus _unref made here
    watchHeld,              \* per watch: _dbus_watch_ref minus _unref made here
    loaderLive, authLive,   \* reference counts of the loader and of the auth object
    freed,                  \* times the subclass finalizer freed the transport
    calls,                  \* public API calls so far
    nRef, nUnref,           \* _dbus_transport_ref / _dbus_transport_unref calls so far
    vcalls,                 \* per vtable operation: invocations so far
    errors,                 \* per target: _dbus_connection_transport_error calls so far
    ev,                     \* the step just taken
    discCtx,                \* where the first dispatching disconnect call came from
    authSeen,               \* _dbus_transport_get_is_authenticated has returned TRUE
    observed,               \* <<queue_length, messages_need_sending>> at each
                            \* entry of the subclass messages_pending callback
    authWork,               \* _dbus_auth_do_work calls so far
    allocs                  \* loader / auth objects created so far

vars == <<phase, refcount, vtable, connection, loader, auth, disconnected,
          authenticated, messages_need_sending, stack, aborted, ownerRefs,
          connHeld, watchHeld, loaderLive, authLive, freed, calls, nRef, nUnref,
          vcalls, errors, ev, discCtx, authSeen, observed, authWork, allocs>>

\* The fields of struct DBusTransport.
fields == <<refcount, vtable, connection, loader, auth, disconnected,
            authenticated, messages_need_sending>>

\* ---------------------------------------------------- state as one value
Cur == [phase |-> phase, refcount |-> refcount, vtable |-> vtable,
        connection |-> connection, loader |-> loader, auth |-> auth,
        disconnected |-> disconnected, authenticated |-> authenticated,
        messages_need_sending |-> messages_need_sending, stack |-> stack,
        aborted |-> aborted, ownerRefs |-> ownerRefs, connHeld |-> connHeld,
        watchHeld |-> watchHeld, loaderLive |-> loaderLive, authLive |-> authLive,
        freed |-> freed, calls |-> calls, nRef |-> nRef, nUnref |-> nUnref,
        vcalls |-> vcalls, errors |-> errors, ev |-> ev, discCtx |-> discCtx,
        authSeen |-> authSeen, observed |-> observed,
        authWork |-> authWork, allocs |-> allocs]

Install(s) ==
    /\ phase' = s.phase
    /\ refcount' = s.refcount
    /\ vtable' = s.vtable
    /\ connection' = s.connection
    /\ loader' = s.loader
    /\ auth' = s.auth
    /\ disconnected' = s.disconnected
    /\ authenticated' = s.authenticated
    /\ messages_need_sending' = s.messages_need_sending
    /\ stack' = s.stack
    /\ aborted' = s.aborted
    /\ ownerRefs' = s.ownerRefs
    /\ connHeld' = s.connHeld
    /\ watchHeld' = s.watchHeld
    /\ loaderLive' = s.loaderLive
    /\ authLive' = s.authLive
    /\ freed' = s.freed
    /\ calls' = s.calls
    /\ nRef' = s.nRef
    /\ nUnref' = s.nUnref
    /\ vcalls' = s.vcalls
    /\ errors' = s.errors
    /\ ev' = s.ev
    /\ discCtx' = s.discCtx
    /\ authSeen' = s.authSeen
    /\ observed' = s.observed
    /\ authWork' = s.authWork
    /\ allocs' = s.allocs

NoEv == [op |-> "none", kind |-> "none", watch |-> "none", cond |-> {},
         conn |-> NULL, q |-> 0, flags |-> {}, timeout |-> 0,
         state |-> "none", ret |-> "void", log |-> <<>>]

Frame(op, w) == [op |-> op, watch |-> w]
Top(s) == s.stack[Len(s.stack)]
Push(s, f) == [s EXCEPT !.stack = Append(@, f)]
Pop(s) == [s EXCEPT !.stack = SubSeq(@, 1, Len(@) - 1)]
Bool(b) == IF b THEN "TRUE" ELSE "FALSE"

\* A failed _dbus_assert: the process aborts where it stands.
Abort(s) == [s EXCEPT !.aborted = TRUE]

\* A public function is entered: the call is counted and recorded.
Enter(s, e) == [s EXCEPT !.calls = @ + 1, !.ev = e]

\* The step makes the reference-count call x: it is added to the step's log.
Log(s, x) == [s EXCEPT !.ev.log = Append(@, x)]

\* (* transport->vtable->op) (transport, ...): the operation is invoked.
VInvoke(s, op) == [s EXCEPT !.vcalls[op] = @ + 1]

\* The vtable operation op is invoked and its callback starts running.
Dispatch(s, op, w) == Push(VInvoke(s, op), Frame(op, w))

\* ------------------------------------------------------- collaborators
\* dbus_watch_get_fd: the descriptor of a watch, negative once invalidated.
WatchFd(w) == IF w = "w_invalid" THEN -1 ELSE 3

\* The interest flags a watch was registered with.
WatchFlags(w) == IF w = "w_read" THEN {"READABLE"} ELSE {}

\* _dbus_watch_sanitize_condition: strip the readiness flags the watch is
\* not listening for.
SanitizeCondition(w, c) == c \ ({"READABLE", "WRITABLE"} \ WatchFlags(w))

\* _dbus_connection_transport_error (transport->connection, DISCONNECTED).
ConnectionTransportError(s) == [s EXCEPT !.errors[s.connection] = @ + 1]

WatchRef(s, w) == Log([s EXCEPT !.watchHeld[w] = @ + 1], "watch_ref")
WatchUnref(s, w) == Log([s EXCEPT !.watchHeld[w] = @ - 1], "watch_unref")

\* dbus_connection_ref / dbus_connection_unref on the bound connection.
ConnectionRef(s) ==
    Log([s EXCEPT !.connHeld[s.connection] = @ + 1], "connection_ref")
ConnectionUnref(s) ==
    Log([s EXCEPT !.connHeld[s.connection] = @ - 1], "connection_unref")

\* ------------------------------------------------- reference counting
TransportRef(s) ==
    Log([s EXCEPT !.refcount = @ + 1, !.nRef = @ + 1], "transport_ref")

\* Mutant: the guard references the connection but not the transport.
HoldRef_ConnectionOnly(s) ==
    IF s.connection # NULL THEN ConnectionRef(s) ELSE s

\* DBUS_TRANSPORT_HOLD_REF
HoldRef(s) ==
    LET s1 == TransportRef(s)
    IN  IF s1.connection # NULL THEN ConnectionRef(s1) ELSE s1

\* Mutant: disconnect itself reports a Disconnected error to the Connection.
TransportDisconnect_ReportsError(s) ==
    IF s.disconnected
    THEN s
    ELSE LET ctx == IF s.stack = <<>> THEN "owner" ELSE Top(s).op
             s1 == IF s.discCtx = "none" THEN [s EXCEPT !.discCtx = ctx] ELSE s
         IN  Dispatch(HoldRef(ConnectionTransportError(s1)), "disconnect", "none")

\* _dbus_transport_disconnect up to the subclass callback.
TransportDisconnect(s) ==
    IF s.disconnected
    THEN s
    ELSE LET ctx == IF s.stack = <<>> THEN "owner" ELSE Top(s).op
             s1 == IF s.discCtx = "none" THEN [s EXCEPT !.discCtx = ctx] ELSE s
         IN  Dispatch(HoldRef(s1), "disconnect", "none")

\* _dbus_transport_finalize_base, the two unrefs that end it.
FinalizeBaseRelease(s) ==
    [s EXCEPT !.loaderLive = @ - 1, !.authLive = @ - 1]

\* _dbus_transport_finalize_base from its entry: a transport that is still
\* connected is disconnected first, which suspends the finalizer in the
\* subclass disconnect callback.
FinalizeBase(s) ==
    IF ~s.disconnected
    THEN TransportDisconnect(Push(s, Frame("finalize", "none")))
    ELSE FinalizeBaseRelease(s)

\* "The finalize method must free the transport."
SubclassFree(s) == [s EXCEPT !.freed = @ + 1]

\* vtable->finalize of a concrete transport: chain up to
\* _dbus_transport_finalize_base, then free the transport.
SubclassFinalize(s) ==
    LET s1 == FinalizeBase(s)
    IN  IF Len(s1.stack) > Len(s.stack) THEN s1 ELSE SubclassFree(s1)

\* Mutant: the count is tested before it is decremented, so the finalizer
\* runs when the last but one reference goes.
TransportUnref_TestBeforeDecrement(s) ==
    IF s.refcount <= 0
    THEN Abort(s)
    ELSE LET s1 == Log([s EXCEPT !.refcount = @ - 1, !.nUnref = @ + 1],
                       "transport_unref")
         IN  IF s.refcount = 2
             THEN SubclassFinalize(VInvoke(s1, "finalize"))
             ELSE s1

TransportUnref(s) ==
    IF s.refcount <= 0
    THEN Abort(s)
    ELSE LET s1 == Log([s EXCEPT !.refcount = @ - 1, !.nUnref = @ + 1],
                       "transport_unref")
         IN  IF s1.refcount = 0
             THEN SubclassFinalize(VInvoke(s1, "finalize"))
             ELSE s1

\* Mutant: the transport is released before the connection.
ReleaseRef_TransportFirst(s) ==
    LET s1 == TransportUnref(s)
    IN  IF s1.connection # NULL THEN ConnectionUnref(s1) ELSE s1

\* DBUS_TRANSPORT_RELEASE_REF
ReleaseRef(s) ==
    TransportUnref(IF s.connection # NULL THEN ConnectionUnref(s) ELSE s)

\* ------------------------------------------------------- public functions
\* Mutant: disconnected is never set.
DisconnectReturn_FlagNotSet(s) == ReleaseRef(s)

\* _dbus_transport_disconnect after the subclass callback has returned.
DisconnectReturn(s) == ReleaseRef([s EXCEPT !.disconnected = TRUE])

TransportGetIsConnected(s) == ~s.disconnected

\* Mutant: the cached flag is not consulted; every call asks the conversation.
TransportGetIsAuthenticated_NoCache(s, st) ==
    LET a == (st = "AUTHENTICATED")
    IN  [s EXCEPT !.authWork = @ + 1, !.ev.state = st,
                  !.authenticated = a, !.ev.ret = Bool(a)]

\* Mutant: the conversation is advanced on every call, also when the cached
\* flag already answers the question.
TransportGetIsAuthenticated_AlwaysConsults(s, st) ==
    IF s.authenticated
    THEN [s EXCEPT !.authWork = @ + 1, !.ev.state = st, !.ev.ret = "TRUE"]
    ELSE LET a == (st = "AUTHENTICATED")
         IN  [s EXCEPT !.authWork = @ + 1, !.ev.state = st,
                       !.authenticated = a, !.ev.ret = Bool(a)]

\* st is what _dbus_auth_do_work reports if it is asked.
TransportGetIsAuthenticated(s, st) ==
    IF s.authenticated
    THEN [s EXCEPT !.ev.ret = "TRUE"]
    ELSE LET a == (st = "AUTHENTICATED")
         IN  [s EXCEPT !.authWork = @ + 1, !.ev.state = st,
                       !.authenticated = a, !.ev.ret = Bool(a)]

\* Mutant: the disconnected test is missing.
TransportHandleWatch_NoDisconnectedCheck(s, w, c) ==
    IF WatchFd(w) < 0
    THEN s
    ELSE LET s1 == [s EXCEPT !.ev.cond = SanitizeCondition(w, c)]
         IN  Dispatch(WatchRef(HoldRef(s1), w), "handle_watch", w)

\* Mutant: the descriptor of the watch is not tested.
TransportHandleWatch_NoFdCheck(s, w, c) ==
    IF s.disconnected
    THEN ConnectionTransportError(s)
    ELSE LET s1 == [s EXCEPT !.ev.cond = SanitizeCondition(w, c)]
         IN  Dispatch(WatchRef(HoldRef(s1), w), "handle_watch", w)

TransportHandleWatch(s, w, c) ==
    IF s.disconnected
    THEN ConnectionTransportError(s)
    ELSE IF WatchFd(w) < 0
    THEN s
    ELSE LET s1 == [s EXCEPT !.ev.cond = SanitizeCondition(w, c)]
         IN  Dispatch(WatchRef(HoldRef(s1), w), "handle_watch", w)

HandleWatchReturn(s, w) == ReleaseRef(WatchUnref(s, w))

\* Mutant: the "no prior binding" assertion is missing.
TransportSetConnection_NoAssert(s, c) ==
    Dispatch(HoldRef([s EXCEPT !.connection = c]), "connection_set", "none")

\* Mutant: binding a connection marks the transport connected again.
TransportSetConnection_ClearsDisconnected(s, c) ==
    IF s.connection # NULL
    THEN Abort(s)
    ELSE Dispatch(HoldRef([s EXCEPT !.connection = c, !.disconnected = FALSE]),
                  "connection_set", "none")

TransportSetConnection(s, c) ==
    IF s.connection # NULL
    THEN Abort(s)
    ELSE Dispatch(HoldRef([s EXCEPT !.connection = c]), "connection_set", "none")

SetConnectionReturn(s) == ReleaseRef(s)

\* The subclass messages_pending callback starts and sees the flag.
MessagesPendingObserve(s, q) ==
    [s EXCEPT !.observed = Append(@, <<q, s.messages_need_sending>>)]

\* Mutant: a disconnected transport returns without reporting.
TransportMessagesPending_SilentWhenDisconnected(s, q) ==
    IF s.disconnected
    THEN s
    ELSE LET s1 == [s EXCEPT !.messages_need_sending = (q > 0)]
         IN  MessagesPendingObserve(Dispatch(HoldRef(s1), "messages_pending", "none"), q)

\* Mutant: the flag is updated after the dispatch instead of before it.
TransportMessagesPending_FlagAfterDispatch(s, q) ==
    IF s.disconnected
    THEN ConnectionTransportError(s)
    ELSE LET s1 == MessagesPendingObserve(
                     Dispatch(HoldRef(s), "messages_pending", "none"), q)
         IN  [s1 EXCEPT !.messages_need_sending = (q > 0)]

\* Mutant: the flag is updated before the disconnected test.
TransportMessagesPending_FlagWhenDisconnected(s, q) ==
    LET s1 == [s EXCEPT !.messages_need_sending = (q > 0)]
    IN  IF s.disconnected
        THEN ConnectionTransportError(s1)
        ELSE MessagesPendingObserve(Dispatch(HoldRef(s1), "messages_pending", "none"), q)

TransportMessagesPending(s, q) ==
    IF s.disconnected
    THEN ConnectionTransportError(s)
    ELSE LET s1 == [s EXCEPT !.messages_need_sending = (q > 0)]
         IN  MessagesPendingObserve(Dispatch(HoldRef(s1), "messages_pending", "none"), q)

MessagesPendingReturn(s) == ReleaseRef(s)

\* Mutant: the disconnected test is missing.
TransportDoIteration_NoDisconnectedCheck(s, flags, timeout) ==
    IF flags \cap {"DO_WRITING", "DO_READING"} = {}
    THEN s
    ELSE Dispatch(HoldRef(s), "do_iteration", "none")

\* Mutant: the disconnected test comes before the test of the flags.
TransportDoIteration_DisconnectedFirst(s, flags, timeout) ==
    IF s.disconnected
    THEN ConnectionTransportError(s)
    ELSE IF flags \cap {"DO_WRITING", "DO_READING"} = {}
    THEN s
    ELSE Dispatch(HoldRef(s), "do_iteration", "none")

TransportDoIteration(s, flags, timeout) ==
    IF flags \cap {"DO_WRITING", "DO_READING"} = {}
    THEN s
    ELSE IF s.disconnected
    THEN ConnectionTransportError(s)
    ELSE Dispatch(HoldRef(s), "do_iteration", "none")

DoIterationReturn(s) == ReleaseRef(s)

\* Mutant: the memory handed to _dbus_transport_init_base is not cleared, so
\* the connection field holds whatever was there.
Init_ConnectionNotCleared ==
    /\ phase = "raw"
    /\ refcount = 0
    /\ vtable = NULL
    /\ connection \in Conns \cup {NULL}
    /\ loader = NULL
    /\ auth = NULL
    /\ disconnected \in BOOLEAN
    /\ authenticated \in BOOLEAN
    /\ messages_need_sending \in BOOLEAN
    /\ stack = <<>>
    /\ aborted = FALSE
    /\ ownerRefs = 0
    /\ connHeld = [c \in Conns |-> 0]
    /\ watchHeld = [w \in Watches |-> 0]
    /\ loaderLive = 0
    /\ authLive = 0
    /\ freed = 0
    /\ calls = 0
    /\ nRef = 0
    /\ nUnref = 0
    /\ vcalls = [o \in VtableOps |-> 0]
    /\ errors = [c \in Conns \cup {NULL} |-> 0]
    /\ ev = NoEv
    /\ discCtx = "none"
    /\ authSeen = FALSE
    /\ observed = <<>>
    /\ authWork = 0
    /\ allocs = [loader |-> 0, auth |-> 0]

\* ------------------------------------------------------------- actions
\* Memory handed to _dbus_transport_init_base by the subclass constructor.
\* init_base writes every field but connection; the data model has the
\* back-reference null until the connection-binding call.
Init ==
    /\ phase = "raw"
    /\ refcount = 0
    /\ vtable = NULL
    /\ connection = NULL
    /\ loader = NULL
    /\ auth = NULL
    /\ disconnected \in BOOLEAN
    /\ authenticated \in BOOLEAN
    /\ messages_need_sending \in BOOLEAN
    /\ stack = <<>>
    /\ aborted = FALSE
    /\ ownerRefs = 0
    /\ connHeld = [c \in Conns |-> 0]
    /\ watchHeld = [w \in Watches |-> 0]
    /\ loaderLive = 0
    /\ authLive = 0
    /\ freed = 0
    /\ calls = 0
    /\ nRef = 0
    /\ nUnref = 0
    /\ vcalls = [o \in VtableOps |-> 0]
    /\ errors = [c \in Conns \cup {NULL} |-> 0]
    /\ ev = NoEv
    /\ discCtx = "none"
    /\ authSeen = FALSE
    /\ observed = <<>>
    /\ authWork = 0
    /\ allocs = [loader |-> 0, auth |-> 0]

\* Mutant: a failed auth allocation does not release the loader.
InitBaseFn_LoaderLeaked(s, loaderOk, authOk, server) ==
    IF ~loaderOk
    THEN [s EXCEPT !.phase = "failed", !.ev.ret = "FALSE"]
    ELSE LET s1 == [s EXCEPT !.allocs.loader = @ + 1, !.loaderLive = @ + 1]
         IN  IF ~authOk
             THEN [s1 EXCEPT !.phase = "failed", !.ev.ret = "FALSE"]
             ELSE [s1 EXCEPT !.allocs.auth = @ + 1, !.authLive = @ + 1,
                             !.refcount = 1, !.vtable = "subclass",
                             !.loader = "loader",
                             !.auth = IF server THEN "server" ELSE "client",
                             !.authenticated = FALSE,
                             !.messages_need_sending = FALSE,
                             !.disconnected = FALSE,
                             !.phase = "live", !.ownerRefs = 1,
                             !.ev.ret = "TRUE"]

\* Mutant: the authenticated flag is left as the memory held it.
InitBaseFn_AuthenticatedNotCleared(s, loaderOk, authOk, server) ==
    IF ~loaderOk
    THEN [s EXCEPT !.phase = "failed", !.ev.ret = "FALSE"]
    ELSE LET s1 == [s EXCEPT !.allocs.loader = @ + 1, !.loaderLive = @ + 1]
         IN  IF ~authOk
             THEN [s1 EXCEPT !.loaderLive = @ - 1, !.phase = "failed",
                             !.ev.ret = "FALSE"]
             ELSE [s1 EXCEPT !.allocs.auth = @ + 1, !.authLive = @ + 1,
                             !.refcount = 1, !.vtable = "subclass",
                             !.loader = "loader",
                             !.auth = IF server THEN "server" ELSE "client",
                             !.messages_need_sending = FALSE,
                             !.disconnected = FALSE,
                             !.phase = "live", !.ownerRefs = 1,
                             !.ev.ret = "TRUE"]

\* _dbus_transport_init_base; loaderOk / authOk say whether the two
\* allocations succeed.
InitBaseFn(s, loaderOk, authOk, server) ==
    IF ~loaderOk
    THEN [s EXCEPT !.phase = "failed", !.ev.ret = "FALSE"]
    ELSE LET s1 == [s EXCEPT !.allocs.loader = @ + 1, !.loaderLive = @ + 1]
         IN  IF ~authOk
             THEN [s1 EXCEPT !.loaderLive = @ - 1, !.phase = "failed",
                             !.ev.ret = "FALSE"]
             ELSE [s1 EXCEPT !.allocs.auth = @ + 1, !.authLive = @ + 1,
                             !.refcount = 1, !.vtable = "subclass",
                             !.loader = "loader",
                             !.auth = IF server THEN "server" ELSE "client",
                             !.authenticated = FALSE,
                             !.messages_need_sending = FALSE,
                             !.disconnected = FALSE,
                             !.phase = "live", !.ownerRefs = 1,
                             !.ev.ret = "TRUE"]

InitBase ==
    /\ phase = "raw"
    /\ \E loaderOk \in BOOLEAN, authOk \in BOOLEAN, server \in BOOLEAN :
         Install(InitBaseFn([Cur EXCEPT !.ev = [NoEv EXCEPT !.op = "init_base",
                                                            !.kind = "call"]],
                            loaderOk, authOk, server))

\* A public function may be called: by the owner while it holds a reference
\* and nothing is running, or by the callback that is running.
CanCall ==
    /\ phase = "live"
    /\ ~aborted
    /\ freed = 0
    /\ calls < MaxCalls
    /\ \/ stack = <<>> /\ ownerRefs > 0
       \/ stack # <<>> /\ Top(Cur).op \in GuardedOps /\ Len(stack) < MaxDepth

Call(op) == [NoEv EXCEPT !.op = op, !.kind = "call"]

Ref ==
    /\ CanCall
    /\ ownerRefs > 0
    /\ ownerRefs < MaxOwnerRefs
    /\ Install(TransportRef([Enter(Cur, Call("ref")) EXCEPT !.ownerRefs = @ + 1]))

Unref ==
    /\ CanCall
    /\ ownerRefs > 0
    /\ Install(TransportUnref([Enter(Cur, Call("unref")) EXCEPT !.ownerRefs = @ - 1]))

Disconnect ==
    /\ CanCall
    /\ Install(TransportDisconnect(Enter(Cur, Call("disconnect"))))

GetIsConnected ==
    /\ CanCall
    /\ Install(Enter(Cur, [Call("get_is_connected") EXCEPT
                             !.ret = Bool(TransportGetIsConnected(Cur))]))

GetIsAuthenticated ==
    /\ CanCall
    /\ \E st \in AuthStates :
         LET s == TransportGetIsAuthenticated(
                    Enter(Cur, Call("get_is_authenticated")), st)
         IN  Install([s EXCEPT !.authSeen = @ \/ (s.ev.ret = "TRUE")])

HandleWatch ==
    /\ CanCall
    /\ \E w \in Watches, c \in Conditions :
         Install(TransportHandleWatch(
                   Enter(Cur, [Call("handle_watch") EXCEPT !.watch = w, !.cond = c]),
                   w, c))

SetConnection ==
    /\ CanCall
    /\ \E c \in Conns :
         Install(TransportSetConnection(
                   Enter(Cur, [Call("set_connection") EXCEPT !.conn = c]), c))

MessagesPending ==
    /\ CanCall
    /\ \E q \in QueueLens :
         Install(TransportMessagesPending(
                   Enter(Cur, [Call("messages_pending") EXCEPT !.q = q]), q))

DoIteration ==
    /\ CanCall
    /\ \E f \in IterFlags, t \in Timeouts :
         Install(TransportDoIteration(
                   Enter(Cur, [Call("do_iteration") EXCEPT !.flags = f, !.timeout = t]),
                   f, t))

\* The running subclass callback returns and the public function that
\* dispatched it runs to its end.
CallbackReturn ==
    /\ ~aborted
    /\ stack # <<>>
    /\ Top(Cur).op \in GuardedOps
    /\ LET f == Top(Cur)
           s == [Pop(Cur) EXCEPT !.ev = [NoEv EXCEPT !.op = f.op, !.kind = "return",
                                                     !.watch = f.watch]]
       IN  Install(CASE f.op = "disconnect" -> DisconnectReturn(s)
                     [] f.op = "handle_watch" -> HandleWatchReturn(s, f.watch)
                     [] f.op = "connection_set" -> SetConnectionReturn(s)
                     [] f.op = "messages_pending" -> MessagesPendingReturn(s)
                     [] f.op = "do_iteration" -> DoIterationReturn(s))

\* The disconnect forced by _dbus_transport_finalize_base has returned: the
\* finalizer releases loader and auth and the subclass frees the transport.
FinalizeResume ==
    /\ ~aborted
    /\ stack # <<>>
    /\ Top(Cur).op = "finalize"
    /\ Install(SubclassFree(FinalizeBaseRelease(
                 [Pop(Cur) EXCEPT !.ev = [NoEv EXCEPT !.op = "finalize",
                                                      !.kind = "resume"]])))

Next ==
    \/ InitBase
    \/ Ref
    \/ Unref
    \/ Disconnect
    \/ GetIsConnected
    \/ GetIsAuthenticated
    \/ HandleWatch
    \/ SetConnection
    \/ MessagesPending
    \/ DoIteration
    \/ CallbackReturn
    \/ FinalizeResume

Spec == Init /\ [][Next]_vars

\* ------------------------------------------------------ shared vocabulary
\* Everything but the count and the record of the calls themselves.
effects == <<phase, refcount, vtable, connection, loader, auth, disconnected,
             authenticated, messages_need_sending, stack, aborted, ownerRefs,
             connHeld, watchHeld, loaderLive, authLive, freed, nRef, nUnref,
             vcalls, errors, discCtx, authSeen, observed, authWork, allocs>>

\* This step is a call of the public function op.
CallStep(op) == calls' = calls + 1 /\ ev'.op = op /\ ev'.kind = "call"

\* _dbus_connection_transport_error calls so far, whatever their target.
TotalErrors == errors[NULL] + errors["c1"] + errors["c2"]

\* A subclass disconnect callback has run and none is running now.
DisconnectDone ==
    /\ vcalls["disconnect"] >= 1
    /\ \A i \in DOMAIN stack : stack[i].op # "disconnect"

\* do_iteration flags that ask for reading or writing.
AsksDirection(f) == f \cap {"DO_WRITING", "DO_READING"} # {}

\* ------------------------------------------------------------------ C1
\* C1: a step that performs _dbus_transport_unref invokes the subclass
\* finalize operation if and only if, counting that call, the unref calls
\* made so far number one more than the ref calls made so far; finalize is
\* invoked by no other step, hence never earlier.
C1_FinalizeIffUnrefsAreRefsPlusOne ==
    [][ /\ (nUnref' = nUnref + 1) =>
             ((vcalls'["finalize"] = vcalls["finalize"] + 1) <=> (nUnref' = nRef + 1))
        /\ (nUnref' # nUnref + 1) =>
             (nUnref' = nUnref /\ vcalls'["finalize"] = vcalls["finalize"]) ]_vars

\* The owner took a second reference and dropped both: the last unref
\* finalizes with three unrefs against two refs.
C1_Witness ==
    /\ ev.op = "unref"
    /\ vcalls["finalize"] = 1
    /\ freed = 1
    /\ nRef >= 2
    /\ nUnref = nRef + 1

\* ------------------------------------------------------------------ C2
\* C2: over the lifetime of a transport the subclass finalize operation is
\* invoked at most once (exactly once when the refcount reaches zero), also
\* when the transport is still connected at that moment.
C2_FinalizeAtMostOnce == vcalls["finalize"] <= 1

\* ------------------------------------------------------------------ C3
\* C3: once a disconnect has completed, a further _dbus_transport_disconnect
\* call changes nothing (so the subclass disconnect is not invoked again) and
\* _dbus_transport_get_is_connected returns false; the first disconnect call
\* invokes the subclass disconnect once, and disconnected is true when a
\* disconnect call has returned.
C3_DisconnectIdempotent ==
    [][ /\ (CallStep("disconnect") /\ DisconnectDone) =>
             (UNCHANGED effects /\ ~TransportGetIsConnected(Cur)')
        /\ (CallStep("disconnect") /\ vcalls["disconnect"] = 0) =>
             vcalls'["disconnect"] = 1
        /\ (ev'.op = "disconnect" /\ ev'.kind = "return" /\ Len(stack') < Len(stack)) =>
             ~TransportGetIsConnected(Cur)'
        /\ (CallStep("get_is_connected") /\ DisconnectDone) => ev'.ret = "FALSE" ]_vars

\* A second disconnect call on a transport the owner disconnected before.
C3_Witness ==
    /\ ev.op = "disconnect"
    /\ ev.kind = "call"
    /\ stack = <<>>
    /\ calls >= 3
    /\ discCtx = "owner"
    /\ vcalls["disconnect"] = 1
    /\ disconnected

\* ------------------------------------------------------------------ C4
\* C4: in a state where disconnected is true no step invokes the subclass
\* handle_watch, messages_pending or do_iteration operation.
C4_NoDispatchOnceDisconnected ==
    [][ disconnected =>
          /\ vcalls'["handle_watch"] = vcalls["handle_watch"]
          /\ vcalls'["messages_pending"] = vcalls["messages_pending"]
          /\ vcalls'["do_iteration"] = vcalls["do_iteration"] ]_vars

\* handle_watch with a valid watch was called on a disconnected transport
\* and the subclass was never entered.
C4_Witness ==
    /\ disconnected
    /\ ev.op = "handle_watch"
    /\ ev.kind = "call"
    /\ ev.watch = "w_read"
    /\ vcalls["handle_watch"] = 0
    /\ TotalErrors = 1

\* ------------------------------------------------------------------ C5
\* C5 as stated: every handle_watch, messages_pending and do_iteration call
\* made while disconnected is true, whatever its arguments, reports an error
\* to the Connection.
C5_EveryCallReports ==
    [][ (disconnected /\ (\/ CallStep("handle_watch")
                          \/ CallStep("messages_pending")
                          \/ CallStep("do_iteration"))) =>
          TotalErrors' = TotalErrors + 1 ]_vars

\* C5 amended: while disconnected is true, every handle_watch call, every
\* messages_pending call and every do_iteration call whose flags ask for
\* reading or writing makes exactly one _dbus_connection_transport_error
\* call, on the transport's connection back-reference; a do_iteration call
\* with neither direction flag reports nothing.
C5_CallsReportUnlessNoDirection ==
    [][ /\ (disconnected /\ (\/ CallStep("handle_watch")
                             \/ CallStep("messages_pending")
                             \/ CallStep("do_iteration") /\ AsksDirection(ev'.flags))) =>
             errors' = [errors EXCEPT ![connection] = @ + 1]
        /\ (disconnected /\ CallStep("do_iteration") /\ ~AsksDirection(ev'.flags)) =>
             errors' = errors ]_vars

\* All three operations have been called on a disconnected transport, the
\* last one a do_iteration that asks for reading, and each has reported.
C5_Witness ==
    /\ disconnected
    /\ ev.op = "do_iteration"
    /\ ev.kind = "call"
    /\ ev.flags = {"DO_READING"}
    /\ TotalErrors = 2
    /\ vcalls["disconnect"] = 1

\* ------------------------------------------------------------------ C6
\* C6: while the callback of a handle_watch call made by the owner runs, the
\* transport is not finalized and its refcount is at least 1, whatever the
\* callback does (disconnecting, the owner dropping its reference); when the
\* first disconnect was made from inside a handle_watch callback, finalize
\* runs at most once and the transport is freed at most once; and the
\* handle_watch call returns without a failed assertion.
C6_ReentrantDisconnectSafe ==
    /\ (stack # <<>> /\ stack[1].op = "handle_watch") =>
          (refcount >= 1 /\ vcalls["finalize"] = 0 /\ freed = 0)
    /\ (discCtx = "handle_watch") => (vcalls["finalize"] <= 1 /\ freed <= 1)
    /\ (ev.op = "handle_watch" /\ ev.kind = "return") => ~aborted

\* The callback disconnected, the owner dropped its last reference inside
\* the callback, and the guard's release on return finalized, once.
C6_Witness ==
    /\ ev.op = "handle_watch"
    /\ ev.kind = "return"
    /\ stack = <<>>
    /\ discCtx = "handle_watch"
    /\ ownerRefs = 0
    /\ vcalls["finalize"] = 1
    /\ freed = 1
    /\ ~aborted

\* ------------------------------------------------------------------ C7
\* C7: once _dbus_transport_get_is_authenticated has returned true, every
\* later call returns true, whatever the auth conversation would report and
\* whether or not the transport has been disconnected.
C7_AuthenticatedMonotonic ==
    [][ (authSeen /\ CallStep("get_is_authenticated")) => ev'.ret = "TRUE" ]_vars

\* A call on a disconnected transport answered true from the cache.
C7_Witness ==
    /\ authSeen
    /\ disconnected
    /\ ev.op = "get_is_authenticated"
    /\ ev.state = "none"
    /\ ev.ret = "TRUE"

\* ------------------------------------------------------------------ C8
\* C8: a _dbus_transport_set_connection call made while a connection is
\* bound fails its assertion, leaves the back-reference as it was and invokes
\* no vtable operation; a bound back-reference never changes.
C8_SetConnectionAtMostOnce ==
    [][ /\ (CallStep("set_connection") /\ connection # NULL) =>
             (aborted' /\ connection' = connection /\ vcalls' = vcalls)
        /\ (connection # NULL) => connection' = connection ]_vars

\* A second call, with another connection, was rejected.
C8_Witness ==
    /\ ev.op = "set_connection"
    /\ aborted
    /\ connection = "c1"
    /\ ev.conn = "c2"
    /\ vcalls["connection_set"] = 1

\* ------------------------------------------------------------------ C9
\* C9: each time the subclass messages_pending callback is entered for a
\* call with queue length q, messages_need_sending is (q > 0).
C9_FlagSetBeforeDispatch ==
    \A i \in DOMAIN observed : observed[i][2] = (observed[i][1] > 0)

\* messages_pending(5) then messages_pending(0): true, then false.
C9_Witness == observed = << <<5, TRUE>>, <<0, FALSE>> >>

\* ----------------------------------------------------------------- C10
\* C10 as stated: over any sequence of operations the Connection is told of
\* a disconnect no more than once.
C10_ReportedAtMostOnce == TotalErrors <= 1

\* C10 amended: _dbus_transport_disconnect itself tells the Connection
\* nothing; the Connection is told only by the Disconnected error of a
\* handle_watch, messages_pending or do_iteration call made once disconnected
\* is true, one report per such call and never while disconnected is false.
C10_ReportedPerCallAfterDisconnect ==
    [][ (errors' # errors) =>
          /\ disconnected
          /\ TotalErrors' = TotalErrors + 1
          /\ \/ CallStep("handle_watch")
             \/ CallStep("messages_pending")
             \/ CallStep("do_iteration") ]_vars

\* A disconnect made from inside a handle_watch callback has been reported
\* twice, by two later calls.
C10_Witness ==
    /\ discCtx = "handle_watch"
    /\ disconnected
    /\ TotalErrors = 2

\* ----------------------------------------------------------------- C11
\* C11 as stated: a set_connection, handle_watch, messages_pending or
\* do_iteration call made while disconnected is true reports one error to
\* the Connection and invokes no vtable operation.
C11_EveryForwarderChecksDisconnected ==
    [][ (disconnected /\ ~aborted' /\ (\/ CallStep("set_connection")
                                       \/ CallStep("handle_watch")
                                       \/ CallStep("messages_pending")
                                       \/ CallStep("do_iteration"))) =>
          (vcalls' = vcalls /\ TotalErrors' = TotalErrors + 1) ]_vars

\* C11 amended: handle_watch and messages_pending test disconnected first,
\* do_iteration tests it after its return for flags without a direction; on
\* a disconnected transport the three invoke no vtable operation and (but
\* for a do_iteration without a direction, which reports nothing) report one
\* error.  set_connection does not test disconnected: on a disconnected
\* transport with no connection bound it binds the connection and invokes
\* connection_set, reporting nothing.
C11_ForwardersButSetConnectionCheck ==
    [][ /\ (disconnected /\ (CallStep("handle_watch") \/ CallStep("messages_pending"))) =>
             (vcalls' = vcalls /\ stack' = stack /\ TotalErrors' = TotalErrors + 1)
        /\ (disconnected /\ CallStep("do_iteration")) =>
             /\ vcalls' = vcalls
             /\ stack' = stack
             /\ TotalErrors' = TotalErrors + (IF AsksDirection(ev'.flags) THEN 1 ELSE 0)
        /\ (disconnected /\ CallStep("set_connection") /\ connection = NULL) =>
             /\ connection' = ev'.conn
             /\ vcalls'["connection_set"] = vcalls["connection_set"] + 1
             /\ errors' = errors ]_vars

\* set_connection on a disconnected transport: the subclass connection_set
\* callback is running.
C11_Witness ==
    /\ disconnected
    /\ ev.op = "set_connection"
    /\ ev.kind = "call"
    /\ stack # <<>>
    /\ Top(Cur).op = "connection_set"
    /\ connection = ev.conn
    /\ TotalErrors = 0

\* ----------------------------------------------------------------- C12
\* C12: a _dbus_transport_do_iteration call whose flags hold neither
\* DO_READING nor DO_WRITING changes nothing, connected or not: no vtable
\* invocation, no error report, no reference taken, no field written.
C12_DoIterationWithoutDirectionIsNoOp ==
    [][ (CallStep("do_iteration") /\ ~AsksDirection(ev'.flags)) =>
          (UNCHANGED effects /\ ev'.log = <<>>) ]_vars

\* Such a call on a disconnected transport: nothing was reported.
C12_Witness ==
    /\ disconnected
    /\ ev.op = "do_iteration"
    /\ ev.kind = "call"
    /\ ev.flags = {"BLOCK"}
    /\ TotalErrors = 0

\* ----------------------------------------------------------------- C13
\* C13: a _dbus_transport_init_base call that fails returns FALSE, has
\* written no field of the transport, leaves no loader and no auth object
\* alive (the loader it may have created is released again, an auth object
\* was never created), and the transport never becomes live.
C13_InitBaseFailsAtomically ==
    [][ /\ (phase = "raw" /\ phase' = "failed") =>
             /\ ev'.op = "init_base"
             /\ ev'.ret = "FALSE"
             /\ UNCHANGED fields
             /\ allocs'.loader \in {0, 1}
             /\ loaderLive' = 0
             /\ allocs'.auth = 0
             /\ authLive' = 0
             /\ ownerRefs' = 0
        /\ (phase = "failed") => UNCHANGED vars ]_vars

\* The auth allocation failed: the loader was created and released, and the
\* disconnected bit still holds what the memory held before the call.
C13_Witness ==
    /\ phase = "failed"
    /\ allocs.loader = 1
    /\ loaderLive = 0
    /\ disconnected
    /\ refcount = 0

\* ----------------------------------------------------------------- C14
\* C14: a successful _dbus_transport_init_base leaves refcount 1, a newly
\* created loader and auth object, and disconnected, authenticated and
\* messages_need_sending false, so _dbus_transport_get_is_connected is true;
\* and until a call has returned true, _dbus_transport_get_is_authenticated
\* returns false whenever the auth conversation reports another phase than
\* authenticated.
C14_InitBaseState ==
    [][ /\ (phase = "raw" /\ phase' = "live") =>
             /\ ev'.ret = "TRUE"
             /\ refcount' = 1
             /\ vtable' = "subclass"
             /\ loader' # NULL /\ allocs'.loader = 1 /\ loaderLive' = 1
             /\ auth' \in {"client", "server"} /\ allocs'.auth = 1 /\ authLive' = 1
             /\ ~disconnected' /\ ~authenticated' /\ ~messages_need_sending'
             /\ TransportGetIsConnected(Cur)'
        /\ (~authSeen /\ CallStep("get_is_authenticated")) =>
             /\ ev'.state \in AuthStates
             /\ ev'.ret = Bool(ev'.state = "AUTHENTICATED") ]_vars

\* A client transport right after construction: connected, and the first
\* authentication query answers false.
C14_Witness ==
    /\ phase = "live"
    /\ auth = "client"
    /\ calls = 1
    /\ ev.op = "get_is_authenticated"
    /\ ev.state = "WAITING_FOR_INPUT"
    /\ ev.ret = "FALSE"
    /\ ~disconnected
    /\ refcount = 1

\* ----------------------------------------------------------------- C15
\* A public function is suspended in the subclass disconnect callback.
InDisconnectCallback(st) == \E i \in DOMAIN st : st[i].op = "disconnect"

\* The reference-count calls of the guard, in the order of
\* DBUS_TRANSPORT_HOLD_REF and of DBUS_TRANSPORT_RELEASE_REF, for a
\* transport whose back-reference is c.
HoldCalls(c) ==
    <<"transport_ref">> \o (IF c # NULL THEN <<"connection_ref">> ELSE <<>>)
ReleaseCalls(c) ==
    (IF c # NULL THEN <<"connection_unref">> ELSE <<>>) \o <<"transport_unref">>

\* The last n entries, and the first n entries, of the sequence q.
Last(q, n) == SubSeq(q, Len(q) - n + 1, Len(q))
First(q, n) == SubSeq(q, 1, n)

\* C15: _dbus_transport_disconnect takes the guard and then invokes the
\* subclass disconnect with disconnected still false; disconnected stays
\* false for as long as the subclass disconnect callback runs; when the
\* callback has returned, disconnected is set and then the guard is released.
C15_DisconnectOrder ==
    [][ /\ (vcalls'["disconnect"] = vcalls["disconnect"] + 1) =>
             /\ ~disconnected'
             /\ Len(ev'.log) >= Len(HoldCalls(connection'))
             /\ Last(ev'.log, Len(HoldCalls(connection'))) = HoldCalls(connection')
        /\ InDisconnectCallback(stack') => ~disconnected'
        /\ (ev'.op = "disconnect" /\ ev'.kind = "return" /\ Len(stack') # Len(stack)) =>
             /\ disconnected'
             /\ Len(ev'.log) >= Len(ReleaseCalls(connection))
             /\ First(ev'.log, Len(ReleaseCalls(connection))) = ReleaseCalls(connection)
      ]_vars

\* ----------------------------------------------------------------- C16
\* C16: over the lifetime of a transport the subclass disconnect operation
\* is invoked at most once, whatever the nesting of the calls.
C16_SubclassDisconnectAtMostOnce == vcalls["disconnect"] <= 1

\* ----------------------------------------------------------------- C17
\* C17: while _dbus_transport_finalize_base is suspended in the disconnect
\* it forces, nothing has been released; the loader and the auth object are
\* each released once and no more, and only with disconnected true.
C17_ReleasedOnceAfterDisconnect ==
    (phase = "live") =>
        /\ loaderLive \in {0, 1}
        /\ authLive \in {0, 1}
        /\ (loaderLive = 0 \/ authLive = 0) => disconnected
        /\ (\E i \in DOMAIN stack : stack[i].op = "finalize") =>
              (loaderLive = 1 /\ authLive = 1)

\* ----------------------------------------------------------------- C18
\* The number of public functions suspended in a subclass callback.
GuardedFrames(st) == Cardinality({i \in DOMAIN st : st[i].op \in GuardedOps})

\* The reference-count calls made before the callback of op is entered and
\* after it has returned, for a transport whose back-reference is c.
EntryCalls(op, c) ==
    HoldCalls(c) \o (IF op = "handle_watch" THEN <<"watch_ref">> ELSE <<>>)
ExitCalls(op, c) ==
    (IF op = "handle_watch" THEN <<"watch_unref">> ELSE <<>>) \o ReleaseCalls(c)

\* C18: every dispatch to a subclass callback is bracketed by the guard. The
\* step that enters the callback ends with the calls transport ref,
\* connection ref (if a connection is attached), watch ref (handle_watch
\* only); the step in which the callback returns starts with the releases in
\* the reverse order; and the transport's count is the owners' references
\* plus one per callback in progress, so a callback that leaves the owners'
\* references alone returns to the count it was entered with.
C18_DispatchBracketedByGuard ==
    [][ /\ (\E op \in GuardedOps : vcalls'[op] = vcalls[op] + 1) =>
             LET e == EntryCalls(Top([stack |-> stack']).op, connection')
             IN  /\ Len(ev'.log) >= Len(e)
                 /\ Last(ev'.log, Len(e)) = e
        /\ (ev'.kind = "return" /\ ~aborted') =>
             LET x == ExitCalls(ev'.op, connection)
             IN  /\ Len(ev'.log) >= Len(x)
                 /\ First(ev'.log, Len(x)) = x
        /\ (phase' = "live" /\ ~aborted') =>
             refcount' = ownerRefs' + GuardedFrames(stack')
      ]_vars

\* A handle_watch callback on a transport with a connection has returned.
C18_Witness ==
    /\ ev.op = "handle_watch" /\ ev.kind = "return"
    /\ ev.log = <<"watch_unref", "connection_unref", "transport_unref">>
    /\ connection # NULL
    /\ stack = <<>>
    /\ refcount = ownerRefs /\ refcount > 0
    /\ vcalls["handle_watch"] = 1

\* ----------------------------------------------------------------- C19
\* C19: _dbus_transport_handle_watch on a connected transport with a watch
\* whose descriptor is negative returns without dispatching to the subclass,
\* without reporting an error, without a reference-count call on transport,
\* connection or watch, and without changing any field of the transport.
C19_InvalidWatchIsSkipped ==
    [][ (CallStep("handle_watch") /\ ~disconnected /\ WatchFd(ev'.watch) < 0) =>
          /\ vcalls' = vcalls
          /\ errors' = errors
          /\ ev'.log = <<>>
          /\ stack' = stack
          /\ UNCHANGED effects
      ]_vars

\* handle_watch has just been called with the invalid watch on a connected
\* transport that has a connection to report to.
C19_Witness ==
    /\ ev.op = "handle_watch" /\ ev.kind = "call"
    /\ ev.watch = "w_invalid" /\ WatchFd(ev.watch) < 0
    /\ phase = "live" /\ ~disconnected /\ ~aborted
    /\ connection # NULL
    /\ vcalls["handle_watch"] = 0

\* ----------------------------------------------------------------- C20
\* C20: a _dbus_transport_get_is_authenticated call made while the cached
\* flag is false advances the auth conversation once and caches true iff the
\* conversation reports the authenticated state; a call made while the
\* cached flag is true does not consult the conversation; nothing else in
\* the transport advances the conversation.
C20_AuthenticationIsLazy ==
    [][ /\ CallStep("get_is_authenticated") =>
             IF authenticated
             THEN /\ authWork' = authWork
                  /\ authenticated'
                  /\ ev'.state = "none"
                  /\ ev'.ret = "TRUE"
             ELSE /\ authWork' = authWork + 1
                  /\ authenticated' <=> (ev'.state = "AUTHENTICATED")
                  /\ ev'.ret = Bool(authenticated')
        /\ (authWork' # authWork) => CallStep("get_is_authenticated")
      ]_vars

\* The conversation was advanced twice before it reported the authenticated
\* state, and a later call has been answered from the cached flag.
C20_Witness ==
    /\ ev.op = "get_is_authenticated" /\ ev.kind = "call"
    /\ ev.state = "none" /\ ev.ret = "TRUE"
    /\ authenticated
    /\ authWork = 2

\* ----------------------------------------------------------------- C21
\* C21: on an initialized transport disconnected never goes back from true
\* to false, whatever operation is performed, and
\* _dbus_transport_get_is_connected reports the negation of the flag
\* without changing it; so it never returns TRUE after it returned FALSE.
C21_DisconnectedMonotonic ==
    [][ /\ (phase = "live" /\ disconnected) => disconnected'
        /\ CallStep("get_is_connected") =>
             /\ ev'.ret = Bool(~disconnected)
             /\ disconnected' = disconnected
      ]_vars

\* get_is_connected returns FALSE on a transport that was disconnected by a
\* dispatching disconnect and has been operated on since.
C21_Witness ==
    /\ ev.op = "get_is_connected" /\ ev.kind = "call" /\ ev.ret = "FALSE"
    /\ phase = "live" /\ disconnected
    /\ vcalls["disconnect"] = 1
    /\ connection # NULL
    /\ TotalErrors >= 1

\* ----------------------------------------------------------------- C22
\* C22: whenever the transport reports a Disconnected error (from
\* handle_watch, messages_pending or do_iteration on a disconnected
\* transport), the connection back-reference is bound: no report is made
\* with connection still NULL.
C22_ErrorReportHasConnection == errors[NULL] = 0

\* ----------------------------------------------------------------- C23
\* C23: the guard is balanced on the connection. The transport never
\* releases a connection reference it did not take, and when no guarded call
\* is in progress every connection reference taken by a guard has been
\* released, also when set_connection was called inside a callback that
\* was entered with no connection attached.
C23_GuardBalancedOnConnection ==
    \A c \in Conns :
        /\ connHeld[c] >= 0
        /\ (GuardedFrames(stack) = 0) => connHeld[c] = 0

\* ----------------------------------------------------------------- C24
\* C24: no resurrection. Once the count of a transport has reached zero,
\* which is when the finalizer is invoked, the count stays zero: nothing
\* reachable from finalization references or unreferences the transport.
C24_NoResurrection ==
    (phase = "live" /\ vcalls["finalize"] >= 1) => refcount = 0

\* ----------------------------------------------------------------- C25
\* C25: _dbus_transport_messages_pending on a disconnected transport leaves
\* messages_need_sending as it was, for every queue length, and the subclass
\* is not told; the flag keeps the value of the last call made while
\* connected.
C25_FlagFrozenOnceDisconnected ==
    [][ (CallStep("messages_pending") /\ disconnected) =>
          /\ messages_need_sending' = messages_need_sending
          /\ vcalls' = vcalls
          /\ observed' = observed
      ]_vars

\* messages_pending was called with an empty queue on a disconnected
\* transport whose flag still says TRUE from a call made while connected.
C25_Witness ==
    /\ ev.op = "messages_pending" /\ ev.kind = "call" /\ ev.q = 0
    /\ phase = "live" /\ disconnected
    /\ messages_need_sending
    /\ vcalls["messages_pending"] = 1
    /\ TotalErrors = 1

====
